---- MODULE Spec2Model ----
(***************************************************************************)
(* Model of main() of ps5000a_BlockMode_Example.cpp: one block capture on  *)
(* a PicoScope 5000 unit.  The program is a straight line of driver calls, *)
(* each followed by a status check, one read of standard input, a bounded  *)
(* polling loop and two print loops.  The driver is the environment: the   *)
(* status, the ready flag and the sample count it returns are chosen       *)
(* nondeterministically at each call.                                      *)
(*                                                                         *)
(* trace records, in program order, every driver call, every status        *)
(* lookup (getStatusCode), the read of standard input, every line written  *)
(* to standard output (a sample line reads its buffer) and every delete[]. *)
(* Readiness queries that follow one another with the same status are kept *)
(* as one entry whose field c counts them.                                 *)
(***************************************************************************)
EXTENDS Integers, Sequences, FiniteSets

VARIABLES pc, status, usbPowered, bufferA, bufferB, input, isReady,
          time_acq, noSamples, sampleIndex, ret, chanRange,
          convArgs, trace, timeIntervalNS, maxSamples

vars ==
  <<pc, status, usbPowered, bufferA, bufferB, input, isReady,
    time_acq, noSamples, sampleIndex, ret, chanRange,
    convArgs, trace, timeIntervalNS, maxSamples>>

----------------------------------------------------------------------------
(* Program constants *)

NO_OF_SAMPLES ==
  100

TIMEOUT_STOP ==
  2000

MAX_ADC ==
  32767

PICO_OK ==
  "PICO_OK"

PICO_POWER_SUPPLY_NOT_CONNECTED ==
  "PICO_POWER_SUPPLY_NOT_CONNECTED"

(* The statuses the driver answers with: success, the USB-power status,    *)
(* and one representative of every other failure.                          *)
Status ==
  {PICO_OK, PICO_POWER_SUPPLY_NOT_CONNECTED, "PICO_INVALID_HANDLE"}

(* Voltage range the channels are configured with, and the range handed to *)
(* adc_to_mv by the print loops.                                           *)
SetChannelRange ==
  "PS5000A_1V"

PrintRange ==
  "PS5000A_2V"

----------------------------------------------------------------------------
(* Bounds of the environment *)

(* The driver answers "ready" (or fails) within the first MaxNotReady + 1  *)
(* readiness queries, or from query number TIMEOUT_STOP + 1 on, or never.  *)
MaxNotReady ==
  3

AnswerWindow(t) ==
  t <= MaxNotReady \/ t >= TIMEOUT_STOP

(* The sample counts ps5000aGetValues writes back: the short counts up to  *)
(* MaxShortCount, one less than asked for, all that was asked for, and one *)
(* more than was asked for (main does not compare the count written back   *)
(* with the count it asked for).                                           *)
MaxShortCount ==
  2

SampleCounts ==
  {n \in 0 .. NO_OF_SAMPLES + 1 :
     n <= MaxShortCount \/ n >= NO_OF_SAMPLES - 1}

(* What ps5000aGetTimebase writes back, <<timeIntervalNS, maxSamples>>:    *)
(* a maximum sample count below, at and above the count asked for.         *)
TimebaseAnswers ==
  { <<1, NO_OF_SAMPLES - 1>>, <<2, NO_OF_SAMPLES>>,
    <<2, NO_OF_SAMPLES + 1>> }

(* Tokens typed at the confirmation gate, as sequences of characters; the  *)
(* empty token is end of input.                                            *)
Tokens ==
  { <<"s", "t", "a", "r", "t">>, <<"s">>, <<"q", "u", "i", "t">>,
    <<"S", "t", "a", "r", "t">>, <<>> }

----------------------------------------------------------------------------
(* Trace entries *)

Ev(k, n, s, i) ==
  [k |-> k, n |-> n, s |-> s, i |-> i, c |-> 1]

(* tr with one more occurrence of e: a new entry, or one more on the count *)
(* of the last entry when that is e already.                               *)
Logged(tr, e) ==
  IF Len(tr) > 0 /\ [tr[Len(tr)] EXCEPT !.c = 1] = e
    THEN [tr EXCEPT ![Len(tr)].c = @ + 1]
    ELSE Append(tr, e)

(* A driver call, the status it returned and its sample-count argument     *)
(* (0 where the call has none).                                            *)
Call(fn, st) ==
  Ev("call", fn, st, 0)

CallN(fn, n, st) ==
  Ev("call", fn, st, n)

Err(label, st) ==
  Ev("err", label, st, 0)

Lookup(st) ==
  Ev("lookup", "getStatusCode", st, 0)

Out(text) ==
  Ev("out", text, "", 0)

(* One token read from standard input. *)
In(stream) ==
  Ev("in", stream, "", 0)

(* std::string::operator[](0): the first character, or the terminating    *)
(* NUL of an empty string.                                                 *)
FirstChar(tok) ==
  IF Len(tok) = 0 THEN "NUL" ELSE tok[1]

----------------------------------------------------------------------------
Init ==
  /\ pc = "open"
  /\ status = PICO_OK
  /\ usbPowered = FALSE
  /\ bufferA = "none"
  /\ bufferB = "none"
  /\ input = <<>>
  /\ isReady = 0
  /\ time_acq = 0
  /\ noSamples = 0
  /\ sampleIndex = 0
  /\ ret = <<>>
  /\ chanRange = [c \in {"A", "B", "C", "D"} |-> "unset"]
  /\ convArgs = {}
  /\ trace = <<>>
  /\ timeIntervalNS = 0
  /\ maxSamples = 0


----------------------------------------------------------------------------
(* A driver call followed by the program's status check: on PICO_OK the    *)
(* program goes on to next; on any other status it prints the error line   *)
(* (the status in decimal and hexadecimal), looks the status up when the   *)
(* call site does so, and returns -1.                                      *)
CheckedCall(here, fn, n, label, lookup, next) ==
  /\ pc = here
  /\ \E st \in Status :
       /\ status' = st
       /\ IF st = PICO_OK
            THEN /\ pc' = next
                 /\ ret' = ret
                 /\ trace' = Append(trace, CallN(fn, n, st))
            ELSE /\ pc' = "done"
                 /\ ret' = <<-1>>
                 /\ trace' = trace \o <<CallN(fn, n, st), Err(label, st)>>
                                   \o (IF lookup THEN <<Lookup(st)>> ELSE <<>>)

(* ps5000aOpenUnit: a failure is reported but main does not return here.   *)
OpenUnit ==
  /\ pc = "open"
  /\ \E st \in Status :
       /\ status' = st
       /\ trace' = IF st /= PICO_OK
                     THEN trace \o <<Call("ps5000aOpenUnit", st),
                                     Err("Open Unit", st), Lookup(st)>>
                     ELSE Append(trace, Call("ps5000aOpenUnit", st))
  /\ pc' = "power"
  /\ UNCHANGED <<timeIntervalNS, maxSamples,
                 usbPowered, bufferA, bufferB, input, isReady, time_acq,
                 noSamples, sampleIndex, ret, chanRange, convArgs>>

(* Mutant: the power source is changed after any failed open. *)
MManagePowerAnyFailure ==
  /\ pc = "power"
  /\ IF status /= PICO_OK
       THEN /\ usbPowered' = TRUE
            /\ \E st \in Status :
                 /\ status' = st
                 /\ trace' = Append(trace,
                                    Call("ps5000aChangePowerSource", st))
       ELSE UNCHANGED <<usbPowered, status, trace>>
  /\ pc' = "chk_power"
  /\ UNCHANGED <<timeIntervalNS, maxSamples,
                 bufferA, bufferB, input, isReady, time_acq, noSamples,
                 sampleIndex, ret, chanRange, convArgs>>

(* Manage Power Supply change *)
ManagePower ==
  /\ pc = "power"
  /\ IF status = PICO_POWER_SUPPLY_NOT_CONNECTED
       THEN /\ usbPowered' = TRUE
            /\ \E st \in Status :
                 /\ status' = st
                 /\ trace' = Append(trace,
                                    Call("ps5000aChangePowerSource", st))
       ELSE UNCHANGED <<usbPowered, status, trace>>
  /\ pc' = "chk_power"
  /\ UNCHANGED <<timeIntervalNS, maxSamples,
                 bufferA, bufferB, input, isReady, time_acq, noSamples,
                 sampleIndex, ret, chanRange, convArgs>>

CheckPower ==
  /\ pc = "chk_power"
  /\ IF status /= PICO_OK
       THEN /\ trace' = trace \o <<Err("Change Power Source", status),
                                   Lookup(status)>>
            /\ ret' = <<-1>>
            /\ pc' = "done"
       ELSE /\ pc' = "chA"
            /\ UNCHANGED <<trace, ret>>
  /\ UNCHANGED <<timeIntervalNS, maxSamples,
                 status, usbPowered, bufferA, bufferB, input,
                 isReady, time_acq, noSamples, sampleIndex, chanRange,
                 convArgs>>

(* Channel A: the one call site that does not look the status up. *)
SetChannelA ==
  /\ CheckedCall("chA", "ps5000aSetChannel_A", 0, "Set Channel A",
                 FALSE, "chB")
  /\ chanRange' = [chanRange EXCEPT !["A"] = SetChannelRange]
  /\ UNCHANGED <<timeIntervalNS, maxSamples,
                 usbPowered, bufferA, bufferB, input, isReady, time_acq,
                 noSamples, sampleIndex, convArgs>>

(* Mutant: channels C and D are configured whatever the power source. *)
MSetChannelBThenC ==
  /\ CheckedCall("chB", "ps5000aSetChannel_B", 0, "Set Channel B",
                 TRUE, "chC")
  /\ chanRange' = [chanRange EXCEPT !["B"] = SetChannelRange]
  /\ UNCHANGED <<timeIntervalNS, maxSamples,
                 usbPowered, bufferA, bufferB, input, isReady, time_acq,
                 noSamples, sampleIndex, convArgs>>

SetChannelB ==
  /\ CheckedCall("chB", "ps5000aSetChannel_B", 0, "Set Channel B",
                 TRUE, IF usbPowered THEN "chC" ELSE "alloc")
  /\ chanRange' = [chanRange EXCEPT !["B"] = SetChannelRange]
  /\ UNCHANGED <<timeIntervalNS, maxSamples,
                 usbPowered, bufferA, bufferB, input, isReady, time_acq,
                 noSamples, sampleIndex, convArgs>>

SetChannelC ==
  /\ CheckedCall("chC", "ps5000aSetChannel_C", 0, "Set Channel C",
                 TRUE, "chD")
  /\ chanRange' = [chanRange EXCEPT !["C"] = SetChannelRange]
  /\ UNCHANGED <<timeIntervalNS, maxSamples,
                 usbPowered, bufferA, bufferB, input, isReady, time_acq,
                 noSamples, sampleIndex, convArgs>>

SetChannelD ==
  /\ CheckedCall("chD", "ps5000aSetChannel_D", 0, "Set Channel D",
                 TRUE, "alloc")
  /\ chanRange' = [chanRange EXCEPT !["D"] = SetChannelRange]
  /\ UNCHANGED <<timeIntervalNS, maxSamples,
                 usbPowered, bufferA, bufferB, input, isReady, time_acq,
                 noSamples, sampleIndex, convArgs>>

(* new int16_t[NO_OF_SAMPLES], twice *)
AllocBuffers ==
  /\ pc = "alloc"
  /\ bufferA' = "allocated"
  /\ bufferB' = "allocated"
  /\ pc' = "bufA"
  /\ UNCHANGED <<timeIntervalNS, maxSamples,
                 status, usbPowered, input, isReady, time_acq,
                 noSamples, sampleIndex, ret, chanRange, convArgs, trace>>

(* Mutant: buffer B is not bound before the timebase query. *)
MSetDataBufferASkipsB ==
  /\ CheckedCall("bufA", "ps5000aSetDataBuffer_A", NO_OF_SAMPLES,
                 "Set Buffer Channel A", TRUE, "timebase")
  /\ UNCHANGED <<timeIntervalNS, maxSamples,
                 usbPowered, bufferA, bufferB, input, isReady, time_acq,
                 noSamples, sampleIndex, chanRange, convArgs>>

SetDataBufferA ==
  /\ CheckedCall("bufA", "ps5000aSetDataBuffer_A", NO_OF_SAMPLES,
                 "Set Buffer Channel A", TRUE, "bufB")
  /\ UNCHANGED <<timeIntervalNS, maxSamples,
                 usbPowered, bufferA, bufferB, input, isReady, time_acq,
                 noSamples, sampleIndex, chanRange, convArgs>>

SetDataBufferB ==
  /\ CheckedCall("bufB", "ps5000aSetDataBuffer_B", NO_OF_SAMPLES,
                 "Set Buffer Channel B", TRUE, "timebase")
  /\ UNCHANGED <<timeIntervalNS, maxSamples,
                 usbPowered, bufferA, bufferB, input, isReady, time_acq,
                 noSamples, sampleIndex, chanRange, convArgs>>

(* Mutant: the status of ps5000aGetTimebase is not checked. *)
MGetTimebaseUnchecked ==
  /\ pc = "timebase"
  /\ \E st \in Status :
       /\ status' = st
       /\ trace' = Append(trace,
                          CallN("ps5000aGetTimebase", NO_OF_SAMPLES, st))
  /\ \E a \in TimebaseAnswers :
       /\ timeIntervalNS' = a[1]
       /\ maxSamples' = a[2]
  /\ pc' = "trigger"
  /\ UNCHANGED <<usbPowered, bufferA, bufferB, input, isReady, time_acq,
                 noSamples, sampleIndex, ret, chanRange, convArgs>>

(* ps5000aGetTimebase(handle, TIMEBASE, NO_OF_SAMPLES, &timeIntervalNS,    *)
(* &maxSamples, 0): on success the driver writes both results.             *)
GetTimebase ==
  /\ CheckedCall("timebase", "ps5000aGetTimebase", NO_OF_SAMPLES,
                 "Get Timebase", TRUE, "trigger")
  /\ IF status' = PICO_OK
       THEN \E a \in TimebaseAnswers :
              /\ timeIntervalNS' = a[1]
              /\ maxSamples' = a[2]
       ELSE UNCHANGED <<timeIntervalNS, maxSamples>>
  /\ UNCHANGED <<usbPowered, bufferA, bufferB, input, isReady, time_acq,
                 noSamples, sampleIndex, chanRange, convArgs>>

SetSimpleTrigger ==
  /\ CheckedCall("trigger", "ps5000aSetSimpleTrigger", 0, "Set Trigger",
                 TRUE, "siggen")
  /\ UNCHANGED <<timeIntervalNS, maxSamples,
                 usbPowered, bufferA, bufferB, input, isReady, time_acq,
                 noSamples, sampleIndex, chanRange, convArgs>>

SetSigGen ==
  /\ CheckedCall("siggen", "ps5000aSetSigGenBuiltInV2", 0,
                 "AWG Signal Genertion", TRUE, "cin")
  /\ UNCHANGED <<timeIntervalNS, maxSamples,
                 usbPowered, bufferA, bufferB, input, isReady, time_acq,
                 noSamples, sampleIndex, chanRange, convArgs>>

(* Mutant: the confirmation character is accepted in either case. *)
MConfirmGateEitherCase ==
  /\ pc = "cin"
  /\ \E tok \in Tokens :
       /\ input' = tok
       /\ IF FirstChar(tok) \in {"s", "S"}
            THEN /\ trace' = trace \o <<In("std::cin"), Out("Acquiring ...")>>
                 /\ pc' = "runblock"
                 /\ ret' = ret
            ELSE /\ trace' = trace \o <<In("std::cin"), Out("Exiting ..."),
                                        Lookup(status)>>
                 /\ pc' = "done"
                 /\ ret' = <<-1>>
  /\ UNCHANGED <<timeIntervalNS, maxSamples,
                 status, usbPowered, bufferA, bufferB, isReady,
                 time_acq, noSamples, sampleIndex, chanRange, convArgs>>

(* std::cin >> input, then the test of input[0] *)
ConfirmGate ==
  /\ pc = "cin"
  /\ \E tok \in Tokens :
       /\ input' = tok
       /\ IF FirstChar(tok) = "s"
            THEN /\ trace' = trace \o <<In("std::cin"), Out("Acquiring ...")>>
                 /\ pc' = "runblock"
                 /\ ret' = ret
            ELSE /\ trace' = trace \o <<In("std::cin"), Out("Exiting ..."),
                                        Lookup(status)>>
                 /\ pc' = "done"
                 /\ ret' = <<-1>>
  /\ UNCHANGED <<timeIntervalNS, maxSamples,
                 status, usbPowered, bufferA, bufferB, isReady,
                 time_acq, noSamples, sampleIndex, chanRange, convArgs>>

(* Mutant: the capture is cut down to the driver's maximum sample count. *)
MRunBlockClamped ==
  /\ CheckedCall("runblock", "ps5000aRunBlock",
                 (IF maxSamples < NO_OF_SAMPLES
                    THEN maxSamples ELSE NO_OF_SAMPLES) - 11,
                 "RunBlock", TRUE, "while")
  /\ isReady' = 0
  /\ time_acq' = 0
  /\ UNCHANGED <<timeIntervalNS, maxSamples,
                 usbPowered, bufferA, bufferB, input, noSamples,
                 sampleIndex, chanRange, convArgs>>

(* ps5000aRunBlock(handle, 10, NO_OF_SAMPLES - 11, ...), then the          *)
(* declarations isReady = 0 and time_acq = 0.                              *)
RunBlock ==
  /\ CheckedCall("runblock", "ps5000aRunBlock", NO_OF_SAMPLES - 11,
                 "RunBlock", TRUE, "while")
  /\ isReady' = 0
  /\ time_acq' = 0
  /\ UNCHANGED <<timeIntervalNS, maxSamples,
                 usbPowered, bufferA, bufferB, input, noSamples,
                 sampleIndex, chanRange, convArgs>>

----------------------------------------------------------------------------
(* Mutant: the loop condition does not test isReady. *)
MPollIterationIgnoresReady ==
  /\ pc = "while"
  /\ status = PICO_OK
  /\ \E st \in Status, rdy \in {0, 1} :
       /\ (st /= PICO_OK \/ rdy = 1) => AnswerWindow(time_acq)
       /\ status' = st
       /\ isReady' = rdy
       /\ IF st /= PICO_OK
            THEN /\ trace' = Logged(trace, Call("ps5000aIsReady", st))
                               \o <<Err("IsReady Issue", st), Lookup(st)>>
                 /\ ret' = <<-1>>
                 /\ pc' = "done"
                 /\ time_acq' = time_acq
            ELSE /\ trace' = Logged(trace, Call("ps5000aIsReady", st))
                 /\ ret' = ret
                 /\ IF time_acq > TIMEOUT_STOP
                      THEN /\ pc' = "stop"
                           /\ time_acq' = time_acq
                      ELSE /\ pc' = "while"
                           /\ time_acq' = time_acq + 1
  /\ UNCHANGED <<timeIntervalNS, maxSamples,
                 usbPowered, bufferA, bufferB, input, noSamples,
                 sampleIndex, chanRange, convArgs>>

(* Mutant: the timeout branch reports without stopping and closing. *)
MPollIterationNoCleanup ==
  /\ pc = "while"
  /\ isReady = 0 /\ status = PICO_OK
  /\ \E st \in Status, rdy \in {0, 1} :
       /\ (st /= PICO_OK \/ rdy = 1) => AnswerWindow(time_acq)
       /\ status' = st
       /\ isReady' = rdy
       /\ IF st /= PICO_OK
            THEN /\ trace' = Logged(trace, Call("ps5000aIsReady", st))
                               \o <<Err("IsReady Issue", st), Lookup(st)>>
                 /\ ret' = <<-1>>
                 /\ pc' = "done"
                 /\ time_acq' = time_acq
            ELSE /\ trace' = Logged(trace, Call("ps5000aIsReady", st))
                 /\ ret' = ret
                 /\ IF time_acq > TIMEOUT_STOP
                      THEN /\ pc' = "report_timeout"
                           /\ time_acq' = time_acq
                      ELSE /\ pc' = "while"
                           /\ time_acq' = time_acq + 1
  /\ UNCHANGED <<timeIntervalNS, maxSamples,
                 usbPowered, bufferA, bufferB, input, noSamples,
                 sampleIndex, chanRange, convArgs>>

(* Mutant: the loop has no ceiling test. *)
MPollIterationNoCeiling ==
  /\ pc = "while"
  /\ isReady = 0 /\ status = PICO_OK
  /\ \E st \in Status, rdy \in {0, 1} :
       /\ (st /= PICO_OK \/ rdy = 1) => AnswerWindow(time_acq)
       /\ status' = st
       /\ isReady' = rdy
       /\ IF st /= PICO_OK
            THEN /\ trace' = Logged(trace, Call("ps5000aIsReady", st))
                               \o <<Err("IsReady Issue", st), Lookup(st)>>
                 /\ ret' = <<-1>>
                 /\ pc' = "done"
                 /\ time_acq' = time_acq
            ELSE /\ trace' = Logged(trace, Call("ps5000aIsReady", st))
                 /\ ret' = ret
                 /\ pc' = "while"
                 /\ time_acq' = time_acq + 1
  /\ UNCHANGED <<timeIntervalNS, maxSamples,
                 usbPowered, bufferA, bufferB, input, noSamples,
                 sampleIndex, chanRange, convArgs>>

(* One pass of the while loop: the readiness query, its status check, the  *)
(* ceiling check, Sleep(1) and the increment of time_acq.                  *)
PollIteration ==
  /\ pc = "while"
  /\ isReady = 0 /\ status = PICO_OK
  /\ \E st \in Status, rdy \in {0, 1} :
       /\ (st /= PICO_OK \/ rdy = 1) => AnswerWindow(time_acq)
       /\ status' = st
       /\ isReady' = rdy
       /\ IF st /= PICO_OK
            THEN /\ trace' = Logged(trace, Call("ps5000aIsReady", st))
                               \o <<Err("IsReady Issue", st), Lookup(st)>>
                 /\ ret' = <<-1>>
                 /\ pc' = "done"
                 /\ time_acq' = time_acq
            ELSE /\ trace' = Logged(trace, Call("ps5000aIsReady", st))
                 /\ ret' = ret
                 /\ IF time_acq > TIMEOUT_STOP
                      THEN /\ pc' = "stop"
                           /\ time_acq' = time_acq
                      ELSE /\ pc' = "while"
                           /\ time_acq' = time_acq + 1
  /\ UNCHANGED <<timeIntervalNS, maxSamples,
                 usbPowered, bufferA, bufferB, input, noSamples,
                 sampleIndex, chanRange, convArgs>>

(* Mutant: the buffers are deleted as soon as the loop is left. *)
MPollExitFreesBuffers ==
  /\ pc = "while"
  /\ ~(isReady = 0 /\ status = PICO_OK)
  /\ trace' = trace \o <<Ev("out", "IsReady : ", "", time_acq),
                          Ev("delete", "A", "", 0), Ev("delete", "B", "", 0)>>
  /\ bufferA' = "freed"
  /\ bufferB' = "freed"
  /\ pc' = "getvalues"
  /\ UNCHANGED <<timeIntervalNS, maxSamples, status, usbPowered, input,
                 isReady, time_acq, noSamples, sampleIndex, ret, chanRange,
                 convArgs>>

(* The loop condition is false: print "IsReady : " and the counter. *)
PollExit ==
  /\ pc = "while"
  /\ ~(isReady = 0 /\ status = PICO_OK)
  /\ trace' = Append(trace, Ev("out", "IsReady : ", "", time_acq))
  /\ pc' = "getvalues"
  /\ UNCHANGED <<timeIntervalNS, maxSamples,
                 status, usbPowered, bufferA, bufferB, input,
                 isReady, time_acq, noSamples, sampleIndex, ret, chanRange,
                 convArgs>>

(* The timeout branch: ps5000aStop and ps5000aCloseUnit, results ignored,  *)
(* then the report and the return.                                         *)
TimeoutStop ==
  /\ pc = "stop"
  /\ \E st \in Status : trace' = Append(trace, Call("ps5000aStop", st))
  /\ pc' = "close_timeout"
  /\ UNCHANGED <<timeIntervalNS, maxSamples,
                 status, usbPowered, bufferA, bufferB, input, isReady,
                 time_acq, noSamples, sampleIndex, ret, chanRange, convArgs>>

TimeoutClose ==
  /\ pc = "close_timeout"
  /\ \E st \in Status :
       trace' = Append(trace, Call("ps5000aCloseUnit", st))
  /\ pc' = "report_timeout"
  /\ UNCHANGED <<timeIntervalNS, maxSamples,
                 status, usbPowered, bufferA, bufferB, input, isReady,
                 time_acq, noSamples, sampleIndex, ret, chanRange, convArgs>>

(* Mutant: the timeout branch does not return. *)
MTimeoutReportNoReturn ==
  /\ pc = "report_timeout"
  /\ trace' = trace \o <<Out("TIMEOUT "), Lookup(status)>>
  /\ pc' = "getvalues"
  /\ UNCHANGED <<timeIntervalNS, maxSamples,
                 status, usbPowered, bufferA, bufferB, input,
                 isReady, time_acq, noSamples, sampleIndex, ret, chanRange,
                 convArgs>>

TimeoutReport ==
  /\ pc = "report_timeout"
  /\ trace' = trace \o <<Out("TIMEOUT "), Lookup(status)>>
  /\ ret' = <<-1>>
  /\ pc' = "done"
  /\ UNCHANGED <<timeIntervalNS, maxSamples,
                 status, usbPowered, bufferA, bufferB, input,
                 isReady, time_acq, noSamples, sampleIndex, chanRange,
                 convArgs>>

(* noSamples = NO_OF_SAMPLES goes in; the driver writes back the number of *)
(* samples it delivered, which main uses as it comes.                      *)
GetValues ==
  /\ pc = "getvalues"
  /\ \E st \in Status :
       /\ status' = st
       /\ IF st = PICO_OK
            THEN /\ \E n \in SampleCounts : noSamples' = n
                 /\ trace' = Append(trace, CallN("ps5000aGetValues",
                                                  NO_OF_SAMPLES, st))
                 /\ ret' = ret
                 /\ pc' = "headA"
            ELSE /\ noSamples' = NO_OF_SAMPLES
                 /\ trace' = trace \o <<CallN("ps5000aGetValues",
                                              NO_OF_SAMPLES, st),
                                        Err("Get Values Issue", st), Lookup(st)>>
                 /\ ret' = <<-1>>
                 /\ pc' = "done"
  /\ UNCHANGED <<timeIntervalNS, maxSamples,
                 usbPowered, bufferA, bufferB, input, isReady, time_acq,
                 sampleIndex, chanRange, convArgs>>

PrintHeaderA ==
  /\ pc = "headA"
  /\ trace' = Append(trace, Out("Print Buffer A : "))
  /\ sampleIndex' = 0
  /\ pc' = "printA"
  /\ UNCHANGED <<timeIntervalNS, maxSamples,
                 status, usbPowered, bufferA, bufferB, input,
                 isReady, time_acq, noSamples, ret, chanRange, convArgs>>

(* Mutant: the print loops run to the requested count. *)
MLoopCondRequested ==
  sampleIndex < NO_OF_SAMPLES

(* Mutant: the print loops run one index past the returned count. *)
MLoopCondInclusive ==
  sampleIndex <= noSamples

(* The condition of both print loops: sampleIndex < noSamples. *)
LoopCond ==
  sampleIndex < noSamples

(* One pass of a print loop: read buffer[sampleIndex], convert it with     *)
(* adc_to_mv(raw, PS5000A_2V, MAX_ADC), write the line.                    *)
PrintLine(here, ch) ==
  /\ pc = here
  /\ LoopCond
  /\ trace' = Append(trace, Ev("line", ch, "", sampleIndex))
  /\ convArgs' = convArgs \cup {<<ch, PrintRange, MAX_ADC>>}
  /\ sampleIndex' = sampleIndex + 1
  /\ UNCHANGED <<timeIntervalNS, maxSamples,
                 pc, status, usbPowered, bufferA, bufferB, input,
                 isReady, time_acq, noSamples, ret, chanRange>>

PrintA ==
  PrintLine("printA", "A")

(* Mutant: the second loop goes on from the index the first one ended at. *)
MPrintHeaderBNoReset ==
  /\ pc = "printA"
  /\ ~LoopCond
  /\ trace' = trace \o <<Out(""), Out("Print Buffer B : ")>>
  /\ pc' = "printB"
  /\ UNCHANGED <<timeIntervalNS, maxSamples,
                 status, usbPowered, bufferA, bufferB, input, isReady,
                 time_acq, noSamples, sampleIndex, ret, chanRange, convArgs>>

PrintHeaderB ==
  /\ pc = "printA"
  /\ ~LoopCond
  /\ trace' = trace \o <<Out(""), Out("Print Buffer B : ")>>
  /\ sampleIndex' = 0
  /\ pc' = "printB"
  /\ UNCHANGED <<timeIntervalNS, maxSamples,
                 status, usbPowered, bufferA, bufferB, input,
                 isReady, time_acq, noSamples, ret, chanRange, convArgs>>

PrintB ==
  PrintLine("printB", "B")

(* Free the buffers *)
FreeBuffers ==
  /\ pc = "printB"
  /\ ~LoopCond
  /\ bufferA' = "freed"
  /\ bufferB' = "freed"
  /\ trace' = trace \o <<Ev("delete", "A", "", 0), Ev("delete", "B", "", 0)>>
  /\ pc' = "close"
  /\ UNCHANGED <<timeIntervalNS, maxSamples,
                 status, usbPowered, input, isReady, time_acq,
                 noSamples, sampleIndex, ret, chanRange, convArgs>>

(* Mutant: main returns 0 whatever ps5000aCloseUnit returned. *)
MCloseUnitIgnoresStatus ==
  /\ pc = "close"
  /\ \E st \in Status :
       /\ status' = st
       /\ trace' = Append(trace, Call("ps5000aCloseUnit", st))
  /\ ret' = <<0>>
  /\ pc' = "done"
  /\ UNCHANGED <<timeIntervalNS, maxSamples,
                 usbPowered, bufferA, bufferB, input, isReady, time_acq,
                 noSamples, sampleIndex, chanRange, convArgs>>

(* Close the unit, and return 0 when that succeeded. *)
CloseUnit ==
  /\ pc = "close"
  /\ \E st \in Status :
       /\ status' = st
       /\ IF st = PICO_OK
            THEN /\ trace' = Append(trace, Call("ps5000aCloseUnit", st))
                 /\ ret' = <<0>>
            ELSE /\ trace' = trace \o <<Call("ps5000aCloseUnit", st),
                                        Err("Close Unit", st), Lookup(st)>>
                 /\ ret' = <<-1>>
  /\ pc' = "done"
  /\ UNCHANGED <<timeIntervalNS, maxSamples,
                 usbPowered, bufferA, bufferB, input, isReady, time_acq,
                 noSamples, sampleIndex, chanRange, convArgs>>

Next ==
  \/ OpenUnit
  \/ ManagePower
  \/ CheckPower
  \/ SetChannelA
  \/ SetChannelB
  \/ SetChannelC
  \/ SetChannelD
  \/ AllocBuffers
  \/ SetDataBufferA
  \/ SetDataBufferB
  \/ GetTimebase
  \/ SetSimpleTrigger
  \/ SetSigGen
  \/ ConfirmGate
  \/ RunBlock
  \/ PollIteration
  \/ PollExit
  \/ TimeoutStop
  \/ TimeoutClose
  \/ TimeoutReport
  \/ GetValues
  \/ PrintHeaderA
  \/ PrintA
  \/ PrintHeaderB
  \/ PrintB
  \/ FreeBuffers
  \/ CloseUnit

Spec ==
  Init /\ [][Next]_vars

(* main runs on one thread that is never suspended for good: whenever a    *)
(* step is possible, a step is taken.                                      *)
FairSpec ==
  Spec /\ WF_vars(Next)

TypeOK ==
  /\ status \in Status
  /\ usbPowered \in BOOLEAN
  /\ isReady \in {0, 1}
  /\ time_acq \in 0 .. TIMEOUT_STOP + 1
  /\ noSamples \in 0 .. NO_OF_SAMPLES + 1
  /\ sampleIndex \in 0 .. NO_OF_SAMPLES + 1
  /\ ret \in {<<>>, <<0>>, <<-1>>}
  /\ (pc = "done") <=> (ret /= <<>>)

----------------------------------------------------------------------------
(* Reading the trace *)

CallIdx ==
  {i \in DOMAIN trace : trace[i].k = "call"}

CallsOf(fn) ==
  {i \in DOMAIN trace : trace[i].k = "call" /\ trace[i].n = fn}

IsCallOf(e, fn) ==
  e.k = "call" /\ e.n = fn

(* The number of occurrences the entries of tr at the positions S stand    *)
(* for.                                                                    *)
RECURSIVE Occurrences(_, _)
Occurrences(tr, S) ==
  IF S = {} THEN 0
  ELSE LET i == CHOOSE x \in S : TRUE
       IN  tr[i].c + Occurrences(tr, S \ {i})

NumCalls(fn) ==
  Occurrences(trace, CallsOf(fn))

Returned ==
  pc = "done"

(* The session is open: ps5000aOpenUnit returned PICO_OK, or it returned   *)
(* PICO_POWER_SUPPLY_NOT_CONNECTED and ps5000aChangePowerSource then       *)
(* returned PICO_OK.                                                       *)
OpenSucceeded ==
  /\ Len(trace) >= 1
  /\ \/ trace[1] = Call("ps5000aOpenUnit", PICO_OK)
     \/ /\ trace[1] = Call("ps5000aOpenUnit", PICO_POWER_SUPPLY_NOT_CONNECTED)
        /\ \E i \in DOMAIN trace :
             trace[i] = Call("ps5000aChangePowerSource", PICO_OK)

(* A call whose status the workflow treats as fatal: any status but        *)
(* PICO_OK, from any call but ps5000aStop, the power status at open apart. *)
FatalAt(i) ==
  /\ trace[i].k = "call"
  /\ trace[i].s /= PICO_OK
  /\ trace[i].n /= "ps5000aStop"
  /\ trace[i] /= Call("ps5000aOpenUnit", PICO_POWER_SUPPLY_NOT_CONNECTED)

----------------------------------------------------------------------------
(* C1: on every exit path of main that follows a successful open,          *)
(* ps5000aCloseUnit has been called exactly once when main returns.        *)
C1_CloseOnEveryExit ==
  (Returned /\ OpenSucceeded) =>
    NumCalls("ps5000aCloseUnit") = 1

(* C2: a driver call that returns a fatal status ends the run at that      *)
(* call: no driver call follows it in the trace, the program is at its     *)
(* return (or on the call-free way to it), and the value returned is -1.   *)
C2_FailFast ==
  \A i \in DOMAIN trace :
    FatalAt(i) =>
      /\ \A j \in (i + 1) .. Len(trace) : trace[j].k /= "call"
      /\ \/ Returned
         \/ trace[i].n = "ps5000aOpenUnit" /\ pc \in {"power", "chk_power"}
         \/ trace[i].n = "ps5000aChangePowerSource" /\ pc = "chk_power"
         \/ trace[i].n = "ps5000aCloseUnit" /\ pc = "report_timeout"
      /\ Returned => ret = <<-1>>

(* A run that ended at a failed readiness query. *)
C2_Witness ==
  /\ Returned
  /\ ret = <<-1>>
  /\ \E i \in DOMAIN trace :
       trace[i] = Call("ps5000aIsReady", "PICO_INVALID_HANDLE")

(* C3: ps5000aChangePowerSource is called exactly once when open returned  *)
(* PICO_POWER_SUPPLY_NOT_CONNECTED and never otherwise; after it the       *)
(* workflow aborts exactly when it returned a status other than PICO_OK,   *)
(* and goes on to channel setup when it returned PICO_OK.                  *)
C3_PowerSourceChange ==
  pc \notin {"open", "power"} =>
    LET cps == CallsOf("ps5000aChangePowerSource")
        chA == CallsOf("ps5000aSetChannel_A")
    IN  IF trace[1].s = PICO_POWER_SUPPLY_NOT_CONNECTED
          THEN /\ NumCalls("ps5000aChangePowerSource") = 1
               /\ \A i \in cps :
                    IF trace[i].s = PICO_OK
                      THEN pc \in {"chk_power", "chA"} \/ chA /= {}
                      ELSE /\ chA = {}
                           /\ pc \in {"chk_power", "done"}
                           /\ Returned => ret = <<-1>>
          ELSE cps = {}

(* Open reported USB power, the power source was changed, and channel A    *)
(* has been configured.                                                    *)
C3_Witness ==
  /\ Len(trace) >= 1
  /\ trace[1] = Call("ps5000aOpenUnit", PICO_POWER_SUPPLY_NOT_CONNECTED)
  /\ CallsOf("ps5000aChangePowerSource") /= {}
  /\ CallsOf("ps5000aSetChannel_A") /= {}

(* The run in which nothing failed. *)
FullSuccess ==
  /\ OpenSucceeded
  /\ \A i \in CallIdx \ {1} : trace[i].s = PICO_OK
  /\ FirstChar(input) = "s"
  /\ isReady = 1
  /\ CallsOf("ps5000aStop") = {}
  /\ CallsOf("ps5000aGetValues") /= {}
  /\ CallsOf("ps5000aCloseUnit") /= {}

(* C4: main returns 0 exactly on the runs where every driver call          *)
(* succeeded, the user confirmed, readiness was reported before the poll   *)
(* ceiling, retrieval and close succeeded; on every other run it returns   *)
(* -1.                                                                     *)
C4_ExitCode ==
  Returned =>
    /\ ret \in {<<0>>, <<-1>>}
    /\ (ret = <<0>>) <=> FullSuccess

C4_Witness ==
  /\ Returned
  /\ ret = <<0>>
  /\ FullSuccess

----------------------------------------------------------------------------
(* The polling loop *)

IsReadyCalls ==
  CallsOf("ps5000aIsReady")

NumQueries(tr) ==
  Occurrences(tr, {i \in DOMAIN tr : IsCallOf(tr[i], "ps5000aIsReady")})

(* This step makes a readiness query. *)
QueryStep ==
  NumQueries(trace') > NumQueries(trace)

QueryFailed ==
  \E i \in IsReadyCalls : trace[i].s /= PICO_OK

RunBlockSucceeded ==
  \E i \in DOMAIN trace :
    trace[i] = CallN("ps5000aRunBlock", NO_OF_SAMPLES - 11, PICO_OK)

(* A query has been made while time_acq was above the ceiling: queries are *)
(* one ahead of the counter.                                               *)
QueriedAboveCeiling ==
  /\ time_acq > TIMEOUT_STOP
  /\ NumQueries(trace) > time_acq

(* C5 as stated: after ps5000aRunBlock succeeds the readiness query is     *)
(* made at least once, and no query is made once isReady is set, a query   *)
(* has failed, or time_acq has exceeded TIMEOUT_STOP.                      *)
C5_NoQueryAboveCeiling ==
  /\ [](RunBlockSucceeded /\ pc /= "while" => IsReadyCalls /= {})
  /\ [][(isReady = 1 \/ QueryFailed \/ time_acq > TIMEOUT_STOP)
          => ~QueryStep]_vars

(* C5, amended: after ps5000aRunBlock succeeds the readiness query is made *)
(* at least once, and no query is made once isReady is set, a query has    *)
(* failed, or a query has been made with time_acq above TIMEOUT_STOP (the  *)
(* ceiling is tested after the query, so one query is made with the        *)
(* counter at TIMEOUT_STOP + 1).                                           *)
C5_NoQueryAfterCeilingTest ==
  /\ [](RunBlockSucceeded /\ pc /= "while" => IsReadyCalls /= {})
  /\ [][(isReady = 1 \/ QueryFailed \/ QueriedAboveCeiling)
          => ~QueryStep]_vars

(* The query made with the counter above the ceiling has been made. *)
C5_Witness ==
  /\ QueriedAboveCeiling
  /\ NumQueries(trace) = TIMEOUT_STOP + 2

(* The ceiling test of the loop has fired: the query made with time_acq    *)
(* above TIMEOUT_STOP, query number TIMEOUT_STOP + 2, returned PICO_OK.    *)
TimedOut ==
  /\ NumQueries(trace) = TIMEOUT_STOP + 2
  /\ ~QueryFailed

(* The index of the last readiness query at or before position i of the    *)
(* trace, 0 when there is none.                                            *)
RECURSIVE QueryBefore(_)
QueryBefore(i) ==
  IF i = 0 THEN 0
  ELSE IF IsCallOf(trace[i], "ps5000aIsReady") THEN i
  ELSE QueryBefore(i - 1)

LastQuery ==
  QueryBefore(Len(trace))

(* C6: on timeout ps5000aStop and then ps5000aCloseUnit are called before  *)
(* "TIMEOUT" is written and before main returns, and no sample buffer is   *)
(* read after the timeout.                                                 *)
C6_StopThenCloseOnTimeout ==
  TimedOut =>
    LET q == LastQuery
        after == (q + 1) .. Len(trace)
        StopClose(upto) ==
          \E i \in after, j \in after :
            /\ i < j /\ j < upto
            /\ IsCallOf(trace[i], "ps5000aStop")
            /\ IsCallOf(trace[j], "ps5000aCloseUnit")
            /\ \A c \in after :
                 c < i => ~IsCallOf(trace[c], "ps5000aCloseUnit")
    IN  /\ \A r \in after : trace[r].k /= "line"
        /\ \A t \in after : trace[t] = Out("TIMEOUT ") => StopClose(t)
        /\ Returned => StopClose(Len(trace) + 1)
        /\ Returned => ret = <<-1>>

C6_Witness ==
  /\ TimedOut
  /\ Returned
  /\ \E t \in DOMAIN trace : trace[t] = Out("TIMEOUT ")

----------------------------------------------------------------------------
(* The confirmation gate *)

CaptureCalls ==
  {i \in DOMAIN trace :
     /\ trace[i].k = "call"
     /\ trace[i].n \in {"ps5000aRunBlock", "ps5000aIsReady",
                        "ps5000aGetValues"}}

TokenRead ==
  {i \in DOMAIN trace : trace[i] = In("std::cin")}

(* C7: a capture call (run block, is-ready, get values) is made only after *)
(* one token has been read whose first character is 's'; after any other   *)
(* token no capture call is made and main returns a non-zero value.        *)
C7_ConfirmationGate ==
  /\ CaptureCalls /= {} =>
       /\ FirstChar(input) = "s"
       /\ Cardinality(TokenRead) = 1
       /\ \A r \in TokenRead : \A c \in CaptureCalls : r < c
  /\ (TokenRead /= {} /\ FirstChar(input) /= "s") =>
       /\ CaptureCalls = {}
       /\ Returned
       /\ ret /= <<0>>

(* The capture was started on the one-character token "s". *)
C7_Witness ==
  /\ input = <<"s">>
  /\ RunBlockSucceeded

----------------------------------------------------------------------------
(* Retrieval and printing *)

LinesOf(ch) ==
  {i \in DOMAIN trace : trace[i].k = "line" /\ trace[i].n = ch}

GetValuesSucceeded ==
  \E i \in DOMAIN trace :
    trace[i] = CallN("ps5000aGetValues", NO_OF_SAMPLES, PICO_OK)

PrintingDone ==
  GetValuesSucceeded /\ pc \in {"close", "done"}

(* C8: after a successful ps5000aGetValues the number of sample lines      *)
(* printed for channel A and for channel B is each the count the driver    *)
(* wrote to noSamples, whatever count was requested.                       *)
C8_LinesEqualReturnedCount ==
  /\ \A ch \in {"A", "B"} : Cardinality(LinesOf(ch)) <= noSamples
  /\ PrintingDone =>
       \A ch \in {"A", "B"} : Cardinality(LinesOf(ch)) = noSamples

(* Fewer samples came back than were asked for, and both blocks are out. *)
C8_Witness ==
  /\ PrintingDone
  /\ noSamples = MaxShortCount
  /\ noSamples < NO_OF_SAMPLES
  /\ Cardinality(LinesOf("A")) = MaxShortCount
  /\ Cardinality(LinesOf("B")) = MaxShortCount

(* The number of "not ready" answers of the scenario: three, the most the  *)
(* environment gives before it answers "ready" in time.                    *)
NotReadyAnswers ==
  MaxNotReady

(* The stub driver of the scenario: every call returns PICO_OK, readiness  *)
(* is false NotReadyAnswers times and then true, and all the samples asked *)
(* for come back.                                                          *)
StubScenario ==
  /\ input = <<"s", "t", "a", "r", "t">>
  /\ \A i \in CallIdx : trace[i].s = PICO_OK
  /\ NumQueries(trace) <= NotReadyAnswers + 1
  /\ (isReady = 1) <=> (NumQueries(trace) = NotReadyAnswers + 1)
  /\ GetValuesSucceeded => noSamples = NO_OF_SAMPLES

(* C9: in that scenario the program reaches retrieval, prints exactly      *)
(* NO_OF_SAMPLES lines for channel A, then exactly NO_OF_SAMPLES lines for *)
(* channel B, and returns 0.                                               *)
C9_StubRun ==
  (Returned /\ StubScenario) =>
    /\ GetValuesSucceeded
    /\ Cardinality(LinesOf("A")) = NO_OF_SAMPLES
    /\ Cardinality(LinesOf("B")) = NO_OF_SAMPLES
    /\ \A a \in LinesOf("A"), b \in LinesOf("B") : a < b
    /\ ret = <<0>>

C9_Witness ==
  /\ Returned
  /\ StubScenario
  /\ NumQueries(trace) = NotReadyAnswers + 1
  /\ Cardinality(LinesOf("B")) = NO_OF_SAMPLES

(* C10: every conversion is handed the range its channel was configured    *)
(* with by ps5000aSetChannel, and the maximum ADC code.                    *)
C10_ConversionUsesChannelRange ==
  \A c \in convArgs :
    /\ c[2] = chanRange[c[1]]
    /\ c[3] = MAX_ADC

----------------------------------------------------------------------------
(* Order of the setup calls *)

ChannelCalls ==
  {i \in DOMAIN trace :
     /\ trace[i].k = "call"
     /\ trace[i].n \in {"ps5000aSetChannel_A", "ps5000aSetChannel_B",
                        "ps5000aSetChannel_C", "ps5000aSetChannel_D"}}

BufferCalls ==
  {i \in DOMAIN trace :
     /\ trace[i].k = "call"
     /\ trace[i].n \in {"ps5000aSetDataBuffer_A", "ps5000aSetDataBuffer_B"}}

TimebaseOrRunCalls ==
  {i \in DOMAIN trace :
     /\ trace[i].k = "call"
     /\ trace[i].n \in {"ps5000aGetTimebase", "ps5000aRunBlock"}}

(* C11: every ps5000aSetChannel call precedes every ps5000aSetDataBuffer   *)
(* call, and both buffer bindings precede the timebase query and the       *)
(* capture start.                                                          *)
C11_SetupOrder ==
  /\ \A b \in BufferCalls : \A c \in ChannelCalls : c < b
  /\ TimebaseOrRunCalls /= {} =>
       /\ CallsOf("ps5000aSetDataBuffer_A") /= {}
       /\ CallsOf("ps5000aSetDataBuffer_B") /= {}
       /\ \A t \in TimebaseOrRunCalls : \A b \in BufferCalls : b < t

(* Four channels were configured, both buffers bound, the capture started. *)
C11_Witness ==
  /\ Cardinality(ChannelCalls) = 4
  /\ Cardinality(BufferCalls) = 2
  /\ Cardinality(TimebaseOrRunCalls) = 2

(* C12: ps5000aSetChannel is called for channel C or D only in runs where  *)
(* open returned PICO_POWER_SUPPLY_NOT_CONNECTED; after open returned      *)
(* PICO_OK neither is ever configured.                                     *)
C12_ChannelsCDOnlyOnUsbPower ==
  (CallsOf("ps5000aSetChannel_C") /= {} \/ CallsOf("ps5000aSetChannel_D") /= {})
    => trace[1] = Call("ps5000aOpenUnit", PICO_POWER_SUPPLY_NOT_CONNECTED)

(* A USB-powered run has configured channel D. *)
C12_Witness ==
  /\ CallsOf("ps5000aSetChannel_D") /= {}
  /\ usbPowered

----------------------------------------------------------------------------
(* Lifetime of the sample buffers *)

DeleteIdx ==
  {i \in DOMAIN trace : trace[i].k = "delete"}

SessionClosed ==
  CallsOf("ps5000aCloseUnit") /= {}

(* A capture has been started and neither retrieved nor closed. *)
CaptureOutstanding ==
  /\ RunBlockSucceeded
  /\ ~GetValuesSucceeded
  /\ ~SessionClosed

BuffersKept ==
  CaptureOutstanding =>
    /\ bufferA = "allocated" /\ bufferB = "allocated"
    /\ DeleteIdx = {}

FreedAfterPrinting ==
  (bufferA = "freed" \/ bufferB = "freed" \/ DeleteIdx /= {}) =>
    /\ PrintingDone
    /\ \A ch \in {"A", "B"} : Cardinality(LinesOf(ch)) = noSamples
    /\ \A d \in DeleteIdx :
         \A l \in LinesOf("A") \cup LinesOf("B") : l < d

(* C13: a bound sample buffer is neither freed nor allocated anew while a  *)
(* capture is outstanding, and the buffers are freed only after retrieval  *)
(* and printing are finished.                                              *)
C13_BuffersOutliveCapture ==
  /\ []BuffersKept
  /\ []FreedAfterPrinting
  /\ [][bufferA = "allocated" => bufferA' /= "none"]_vars
  /\ [][(bufferA /= "none" /\ bufferA' = "allocated")
          => bufferA = "allocated"]_vars

(* The buffers were freed after a full print of both channels. *)
C13_Witness ==
  /\ bufferA = "freed"
  /\ bufferB = "freed"
  /\ noSamples = NO_OF_SAMPLES
  /\ Cardinality(LinesOf("B")) = NO_OF_SAMPLES

----------------------------------------------------------------------------
(* Outcome of the polling loop *)

(* A readiness query returned PICO_OK with the ready flag set. *)
ReadyReported ==
  /\ isReady = 1
  /\ NumQueries(trace) > 0
  /\ ~QueryFailed

(* The timeout branch of the loop has been entered. *)
TimeoutTaken ==
  \/ pc \in {"stop", "close_timeout", "report_timeout"}
  \/ CallsOf("ps5000aStop") /= {}

(* C14: once a readiness query has returned PICO_OK with the ready flag    *)
(* set, the loop is left for retrieval (ps5000aGetValues); the timeout     *)
(* branch is taken only when no query reported ready.                      *)
C14_ReadyLeadsToRetrieval ==
  /\ ReadyReported =>
       /\ ~TimeoutTaken
       /\ pc \in {"while", "getvalues"} \/ CallsOf("ps5000aGetValues") /= {}
  /\ TimeoutTaken => isReady = 0

(* The loop is over and no query reported ready or failed. *)
NeverReadyDone ==
  /\ RunBlockSucceeded
  /\ pc /= "while"
  /\ isReady = 0
  /\ ~QueryFailed

(* C15: the polling loop always terminates: a run makes at most            *)
(* TIMEOUT_STOP + 2 readiness queries whatever the driver answers, the     *)
(* loop is always left, and with a driver that never reports ready it is   *)
(* left by the timeout branch.                                             *)
C15_PollingTerminates ==
  /\ [](NumQueries(trace) <= TIMEOUT_STOP + 2)
  /\ [](NeverReadyDone =>
          TimeoutTaken /\ NumQueries(trace) = TIMEOUT_STOP + 2)
  /\ (pc = "while") ~> (pc /= "while")

(* The run of a never-ready driver has ended by the timeout branch. *)
C15_Witness ==
  /\ Returned
  /\ NeverReadyDone
  /\ NumQueries(trace) = TIMEOUT_STOP + 2

----------------------------------------------------------------------------
(* Reporting and release on the error returns *)

(* C16: when main has returned, every driver call that returned a fatal    *)
(* status is followed by an error line carrying that status and by a       *)
(* status lookup (getStatusCode) of that status.                           *)
C16_FatalStatusIsDecoded ==
  Returned =>
    \A i \in DOMAIN trace :
      FatalAt(i) =>
        /\ \E j \in (i + 1) .. Len(trace) :
             trace[j].k = "err" /\ trace[j].s = trace[i].s
        /\ \E j \in (i + 1) .. Len(trace) : trace[j] = Lookup(trace[i].s)

(* C17: once the two sample buffers have been allocated, they have been    *)
(* deleted when main returns, on every exit path.                          *)
C17_BuffersReleasedOnExit ==
  (Returned /\ bufferA /= "none") =>
    /\ bufferA = "freed"
    /\ bufferB = "freed"

----------------------------------------------------------------------------
(* Sample counts and buffer bounds *)

(* C18: the results of ps5000aGetTimebase are not used: ps5000aRunBlock is *)
(* always asked for NO_OF_SAMPLES - 11 samples after the trigger and       *)
(* ps5000aGetValues always for NO_OF_SAMPLES samples, whatever maximum     *)
(* sample count the driver wrote back.                                     *)
C18_TimebaseResultsUnused ==
  /\ \A i \in CallsOf("ps5000aRunBlock") :
       trace[i].i = NO_OF_SAMPLES - 11
  /\ \A i \in CallsOf("ps5000aGetValues") : trace[i].i = NO_OF_SAMPLES

(* A capture was run and retrieved although the driver's maximum sample    *)
(* count is below the count asked for.                                     *)
C18_Witness ==
  /\ maxSamples = NO_OF_SAMPLES - 1
  /\ RunBlockSucceeded
  /\ GetValuesSucceeded

(* The number of elements of bufferA and of bufferB. *)
BufferCapacity ==
  NO_OF_SAMPLES

(* The indices the print loops have read from the buffer of channel ch. *)
IndicesRead(ch) ==
  {trace[i].i : i \in LinesOf(ch)}

(* C19: when ps5000aGetValues wrote back no more samples than were asked   *)
(* for, every index the print loops read from bufferA and bufferB is below *)
(* the buffer capacity; the length bound by ps5000aSetDataBuffer and the   *)
(* count asked of ps5000aGetValues are that capacity.                      *)
C19_ReadsWithinCapacity ==
  /\ noSamples <= NO_OF_SAMPLES =>
       \A ch \in {"A", "B"} : \A n \in IndicesRead(ch) : n < BufferCapacity
  /\ \A i \in BufferCalls : trace[i].i = BufferCapacity
  /\ \A i \in CallsOf("ps5000aGetValues") : trace[i].i = BufferCapacity

(* Both loops have read the last element of their buffers. *)
C19_Witness ==
  /\ noSamples = NO_OF_SAMPLES
  /\ BufferCapacity - 1 \in IndicesRead("A")
  /\ BufferCapacity - 1 \in IndicesRead("B")

(* The positions of the ps5000aCloseUnit calls in the trace. *)
CloseCalls ==
  CallsOf("ps5000aCloseUnit")

(* C20: ps5000aCloseUnit is called at most once in a run, and no driver    *)
(* call is made after it.                                                  *)
C20_NoCallAfterClose ==
  /\ NumCalls("ps5000aCloseUnit") <= 1
  /\ \A c \in CloseCalls : \A i \in CallIdx : i <= c

(* The timeout branch has closed the unit and main has returned. *)
C20_Witness ==
  /\ Returned
  /\ TimeoutTaken
  /\ CloseCalls /= {}

====
